---- MODULE Spec2Model ----
(***************************************************************************)
(* BrowserManager (skyvern/webeye/browser_manager.py): the process-wide    *)
(* registry `pages` from task ids and workflow-run ids to BrowserState     *)
(* objects, with the coroutines that create, alias and tear down entries.  *)
(* Coroutines run on one asyncio thread: a step of the model is the code   *)
(* a coroutine runs between two suspension points (an await on the         *)
(* automation driver), so entries of `pages` change atomically per step    *)
(* and steps of different callers interleave at the awaits. The shutdown   *)
(* of the whole registry (BrowserManager.close) and the video artifacts    *)
(* are followed by one caller each, in specifications of their own.        *)
(***************************************************************************)
EXTENDS Integers, FiniteSets, Sequences, TLC

\* ------------------------------------------------------------------ bounds
MaxSessions == 2        \* BrowserState objects the driver creates in a run
MaxRelease == 2         \* tracing.stop calls, and close() calls, followed per BrowserState
NumProcs == 2           \* concurrent callers (asyncio tasks)

\* -------------------------------------------------------------- key space
\* task.workflow_run_id: t1..t5 belong to workflow run w1, t6 to none.
RunTasks == {"t1", "t2", "t3", "t4", "t5"}
Tasks == RunTasks \cup {"t6"}
WorkflowRuns == {"w1"}
Keys == Tasks \cup WorkflowRuns
None == "None"

WorkflowRunId(t) == IF t \in RunTasks THEN "w1" ELSE None

\* The keys and task_ids lists the interleaved callers of Spec use, and the
\* ones the single caller of SeqSpec uses.
SomeTasks == {"t1", "t2", "t6"}
SomeKeys == SomeTasks \cup WorkflowRuns
SomeLists == {{}, {"t1"}, {"t1", "t2"}}
AllLists == {{}, {"t1"}, {"t1", "t2"}, RunTasks, Tasks}

Procs == 1..NumProcs
Sessions == 1..MaxSessions
NoSession == 0          \* Python None where a BrowserState is expected

VARIABLES
    pages,      \* BrowserManager.pages: key -> BrowserState (NoSession: no entry)
    created,    \* number of BrowserState objects constructed so far
    page,       \* per BrowserState: page is not None
    tracesDir,  \* per BrowserState: browser_artifacts.traces_dir is set
    videoArtifacts, \* per BrowserState: browser_artifacts.video_artifacts
    stopCalls,  \* per BrowserState: number of tracing.stop invocations
    stopDone,   \* per BrowserState: a tracing.stop call has completed
    released,   \* per BrowserState: number of close() invocations
    pc,         \* per caller: where its coroutine is suspended ("idle": in no call)
    op,         \* per caller: the call it is in
    local,      \* per caller: browser_state / browser_state_to_close
    tracePath,  \* per caller: the key in trace_path (<traces_dir>/<key>.zip)
    ret,        \* the value the last call to return has returned
    retArtifacts, \* the list it returned, when it returns a list of VideoArtifact
    outcome     \* how it ended: "ok", "timeout" (logged, no error), "error" (raised)

vars == <<pages, created, page, tracesDir, videoArtifacts, stopCalls, stopDone,
          released, pc, op, local, tracePath, ret, retArtifacts, outcome>>

driver == <<stopCalls, stopDone, released>>
objects == <<created, page, tracesDir, videoArtifacts>>

NoOp == [name |-> "none", key |-> None, members |-> {}]
Call(name, key, members) == [name |-> name, key |-> key, members |-> members]

\* The keys under which a BrowserState is registered.
KeysOf(s) == {k \in Keys : pages[k] = s}

\* Creations requested from the driver that have neither returned nor failed.
Pending == {p \in Procs : pc[p] = "goc_create"}

Init ==
    /\ pages = [k \in Keys |-> NoSession]
    /\ created = 0
    /\ page = [s \in Sessions |-> FALSE]
    /\ tracesDir = [s \in Sessions |-> FALSE]
    /\ videoArtifacts = [s \in Sessions |-> <<>>]
    /\ stopCalls = [s \in Sessions |-> 0]
    /\ stopDone = [s \in Sessions |-> FALSE]
    /\ released = [s \in Sessions |-> 0]
    /\ pc = [p \in Procs |-> "idle"]
    /\ op = [p \in Procs |-> NoOp]
    /\ local = [p \in Procs |-> NoSession]
    /\ tracePath = [p \in Procs |-> None]
    /\ ret = NoSession
    /\ retArtifacts = <<>>
    /\ outcome = "none"

\* Caller p moves to label l with call c, local browser state s and local
\* trace_path tp.
Goto(p, l, c, s, tp) ==
    /\ pc' = [pc EXCEPT ![p] = l]
    /\ op' = [op EXCEPT ![p] = c]
    /\ local' = [local EXCEPT ![p] = s]
    /\ tracePath' = [tracePath EXCEPT ![p] = tp]

\* The call of p returns v (how = "ok"), returns v after logging a timeout
\* (how = "timeout"), or raises (how = "error", v = NoSession).
Return(p, v, how) ==
    /\ Goto(p, "idle", NoOp, NoSession, None)
    /\ ret' = v
    /\ retArtifacts' = <<>>
    /\ outcome' = how

\* Call c of p suspends at label l holding s and tp in its local variables.
Suspend(p, l, c, s, tp) ==
    /\ Goto(p, l, c, s, tp)
    /\ UNCHANGED <<ret, retArtifacts, outcome>>

\* ------------------------------------------------ get_or_create_for_task
\* Mutant of GetOrCreateForTaskBegin: the second lookup takes any workflow
\* run that has an entry, not the task's own.
GetOrCreateForTaskBeginAnyRun(p, t) ==
    /\ pc[p] = "idle"
    /\ IF pages[t] # NoSession
         THEN /\ Return(p, pages[t], "ok")
              /\ UNCHANGED pages
         ELSE IF \E w \in WorkflowRuns : pages[w] # NoSession
         THEN \E w \in WorkflowRuns :
                /\ pages[w] # NoSession
                /\ pages' = [pages EXCEPT ![t] = pages[w]]
                /\ Return(p, pages[w], "ok")
         ELSE /\ created + Cardinality(Pending) < MaxSessions
              /\ Suspend(p, "goc_create", Call("get_or_create_for_task", t, {}),
                         NoSession, None)
              /\ UNCHANGED pages
    /\ UNCHANGED <<objects, driver>>

\* Mutant of GetOrCreateForTaskBegin: the task's own entry is not looked up.
GetOrCreateForTaskBeginNoLookup(p, t) ==
    /\ pc[p] = "idle"
    /\ IF WorkflowRunId(t) # None /\ pages[WorkflowRunId(t)] # NoSession
         THEN /\ pages' = [pages EXCEPT ![t] = pages[WorkflowRunId(t)]]
              /\ Return(p, pages[WorkflowRunId(t)], "ok")
         ELSE /\ created + Cardinality(Pending) < MaxSessions
              /\ Suspend(p, "goc_create", Call("get_or_create_for_task", t, {}),
                         NoSession, None)
              /\ UNCHANGED pages
    /\ UNCHANGED <<objects, driver>>

\* Mutant of GetOrCreateForTaskBegin: the workflow run's BrowserState is
\* returned without being registered under the task's key.
GetOrCreateForTaskBeginNoAlias(p, t) ==
    /\ pc[p] = "idle"
    /\ IF pages[t] # NoSession
         THEN Return(p, pages[t], "ok")
         ELSE IF WorkflowRunId(t) # None /\ pages[WorkflowRunId(t)] # NoSession
         THEN Return(p, pages[WorkflowRunId(t)], "ok")
         ELSE /\ created + Cardinality(Pending) < MaxSessions
              /\ Suspend(p, "goc_create", Call("get_or_create_for_task", t, {}),
                         NoSession, None)
    /\ UNCHANGED <<pages, objects, driver>>

\* Lines 57-69: the two lookups, then the call of _create_browser_state.
GetOrCreateForTaskBegin(p, t) ==
    /\ pc[p] = "idle"
    /\ IF pages[t] # NoSession
         THEN /\ Return(p, pages[t], "ok")
              /\ UNCHANGED pages
         ELSE IF WorkflowRunId(t) # None /\ pages[WorkflowRunId(t)] # NoSession
         THEN /\ pages' = [pages EXCEPT ![t] = pages[WorkflowRunId(t)]]
              /\ Return(p, pages[WorkflowRunId(t)], "ok")
         ELSE /\ created + Cardinality(Pending) < MaxSessions
              /\ Suspend(p, "goc_create", Call("get_or_create_for_task", t, {}),
                         NoSession, None)
              /\ UNCHANGED pages
    /\ UNCHANGED <<objects, driver>>

\* ---------------------------------------- get_or_create_for_workflow_run
GetOrCreateForWorkflowRunBegin(p, w) ==
    /\ pc[p] = "idle"
    /\ IF pages[w] # NoSession
         THEN Return(p, pages[w], "ok")
         ELSE /\ created + Cardinality(Pending) < MaxSessions
              /\ Suspend(p, "goc_create",
                         Call("get_or_create_for_workflow_run", w, {}), NoSession, None)
    /\ UNCHANGED <<pages, objects, driver>>

\* Mutant of CreateBrowserStateReturns: the new BrowserState is registered
\* under the call's key before get_or_create_page is called on it.
CreateBrowserStateReturnsRegistered(p) ==
    /\ pc[p] = "goc_create"
    /\ created < MaxSessions
    /\ created' = created + 1
    /\ \E td \in BOOLEAN : tracesDir' = [tracesDir EXCEPT ![created + 1] = td]
    /\ pages' = [pages EXCEPT ![op[p].key] = created + 1]
    /\ Suspend(p, "goc_page", op[p], created + 1, None)
    /\ UNCHANGED <<page, videoArtifacts, driver>>

\* _create_browser_state returns a BrowserState with page=None (lines 48-54);
\* the caller then calls get_or_create_page on it and suspends.
CreateBrowserStateReturns(p) ==
    /\ pc[p] = "goc_create"
    /\ created < MaxSessions
    /\ created' = created + 1
    /\ \E td \in BOOLEAN : tracesDir' = [tracesDir EXCEPT ![created + 1] = td]
    /\ Suspend(p, "goc_page", op[p], created + 1, None)
    /\ UNCHANGED <<pages, page, videoArtifacts, driver>>

\* The driver fails inside _create_browser_state: the exception propagates.
CreateBrowserStateFails(p) ==
    /\ pc[p] = "goc_create"
    /\ Return(p, NoSession, "error")
    /\ UNCHANGED <<pages, objects, driver>>

\* Mutant of Register: an entry that exists is kept (dict.setdefault).
RegisterIfAbsent(c, s) ==
    pages' = [k \in Keys |->
                IF pages[k] = NoSession
                   /\ (k = c.key \/ (c.name = "get_or_create_for_task" /\ k = WorkflowRunId(c.key)))
                  THEN s ELSE pages[k]]

\* Mutant of Register: the workflow run's key is not assigned.
RegisterPrimaryOnly(c, s) == pages' = [pages EXCEPT ![c.key] = s]

\* The registration that follows get_or_create_page (lines 82-84, line 110).
Register(c, s) ==
    IF c.name = "get_or_create_for_task"
      THEN pages' = [k \in Keys |->
                       IF k = c.key \/ (WorkflowRunId(c.key) # None /\ k = WorkflowRunId(c.key))
                         THEN s ELSE pages[k]]
      ELSE pages' = [pages EXCEPT ![c.key] = s]

\* BrowserState.get_or_create_page has returned on s: s has a page ("This
\* will make sure browser_state.page is not None", line 77).
EnsurePage(s) == page' = [page EXCEPT ![s] = TRUE]

\* get_or_create_page returns: the page exists, the state is registered and
\* returned.
GetOrCreatePageReturns(p) ==
    /\ pc[p] = "goc_page"
    /\ EnsurePage(local[p])
    /\ Register(op[p], local[p])
    /\ Return(p, local[p], "ok")
    /\ UNCHANGED <<created, tracesDir, videoArtifacts, driver>>

\* Mutant of GetOrCreatePageFails: the BrowserState was registered before
\* get_or_create_page was called, and stays registered when it raises.
GetOrCreatePageFailsRegistered(p) ==
    /\ pc[p] = "goc_page"
    /\ Register(op[p], local[p])
    /\ Return(p, NoSession, "error")
    /\ UNCHANGED <<objects, driver>>

\* get_or_create_page raises: the exception propagates, nothing is registered.
GetOrCreatePageFails(p) ==
    /\ pc[p] = "goc_page"
    /\ Return(p, NoSession, "error")
    /\ UNCHANGED <<pages, objects, driver>>

\* ---------------------------------------------------- get_for_workflow_run
GetForWorkflowRun(p, k) ==
    /\ pc[p] = "idle"
    /\ Return(p, pages[k], "ok")
    /\ UNCHANGED <<pages, objects, driver>>

\* -------------------------------------------------------- video artifacts
\* A VideoArtifact: video_path is a path or None, video_data bytes or None.
VideoArtifact(path, data) == [video_path |-> path, video_data |-> data]

\* Storage: the file f1 exists and f2 does not (os.path.exists); the bytes a
\* read of the file at a path yields (f.read()).
Exists(path) == path = "f1"
FileData(path) == IF path = "f1" THEN "bytes of f1" ELSE "bytes of f2"

\* The tasks recordings are attached for: one of the workflow run, one of none.
ArtifactTasks == {"t1", "t6"}

\* The lists callers attach: empty; one recording, its file there or
\* missing; two recordings in either order of paths, with no path, and with
\* a payload set beforehand.
ArtifactLists ==
    { <<>>,
      <<VideoArtifact("f1", None)>>,
      <<VideoArtifact("f2", None)>>,
      <<VideoArtifact("f2", None), VideoArtifact("f1", None)>>,
      <<VideoArtifact(None, "given"), VideoArtifact("f1", "given")>>,
      <<VideoArtifact(None, None), VideoArtifact("f2", "given")>> }

\* The call of p returns a list of VideoArtifact.
ReturnArtifacts(p, artifacts) ==
    /\ Goto(p, "idle", NoOp, NoSession, None)
    /\ ret' = NoSession
    /\ retArtifacts' = artifacts
    /\ outcome' = "ok"

\* Mutant of SetVideoArtifactForTask: the task's own key is looked up first.
SetVideoArtifactForTaskOwnFirst(p, t, artifacts) ==
    /\ pc[p] = "idle"
    /\ IF pages[t] # NoSession
         THEN /\ videoArtifacts' = [videoArtifacts EXCEPT ![pages[t]] = artifacts]
              /\ Return(p, NoSession, "ok")
         ELSE IF WorkflowRunId(t) # None /\ pages[WorkflowRunId(t)] # NoSession
         THEN /\ videoArtifacts' =
                    [videoArtifacts EXCEPT ![pages[WorkflowRunId(t)]] = artifacts]
              /\ Return(p, NoSession, "ok")
         ELSE /\ UNCHANGED videoArtifacts
              /\ Return(p, NoSession, "error")
    /\ UNCHANGED <<pages, created, page, tracesDir, driver>>

\* set_video_artifact_for_task, which has no await: the list goes to the
\* workflow run's BrowserState, else to the task's, else MissingBrowserState.
SetVideoArtifactForTask(p, t, artifacts) ==
    /\ pc[p] = "idle"
    /\ IF WorkflowRunId(t) # None /\ pages[WorkflowRunId(t)] # NoSession
         THEN /\ videoArtifacts' =
                    [videoArtifacts EXCEPT ![pages[WorkflowRunId(t)]] = artifacts]
              /\ Return(p, NoSession, "ok")
         ELSE IF pages[t] # NoSession
         THEN /\ videoArtifacts' = [videoArtifacts EXCEPT ![pages[t]] = artifacts]
              /\ Return(p, NoSession, "ok")
         ELSE /\ UNCHANGED videoArtifacts
              /\ Return(p, NoSession, "error")
    /\ UNCHANGED <<pages, created, page, tracesDir, driver>>

\* Mutant of ReadVideoData: the file is read whenever a path is set.
ReadVideoDataUnchecked(a) ==
    IF a.video_path # None
      THEN [a EXCEPT !.video_data = FileData(a.video_path)]
      ELSE a

\* Lines 145-148: one turn of the loop on the artifact a.
ReadVideoData(a) ==
    IF a.video_path # None /\ Exists(a.video_path)
      THEN [a EXCEPT !.video_data = FileData(a.video_path)]
      ELSE a

\* get_video_artifacts on the BrowserState s, which the caller holds (it need
\* not be registered); the coroutine has no await.
GetVideoArtifacts(p, s) ==
    /\ pc[p] = "idle"
    /\ s <= created
    /\ IF Len(videoArtifacts[s]) = 0
         THEN /\ ReturnArtifacts(p, <<>>)
              /\ UNCHANGED videoArtifacts
         ELSE LET read == [i \in 1..Len(videoArtifacts[s]) |->
                             ReadVideoData(videoArtifacts[s][i])]
              IN  /\ videoArtifacts' = [videoArtifacts EXCEPT ![s] = read]
                  /\ ReturnArtifacts(p, read)
    /\ UNCHANGED <<pages, created, page, tracesDir, driver>>

\* ------------------------------------------------------ the close sequence
\* tracing.stop(path=trace_path) is called on s.
CallTracingStop(s) == stopCalls' = [stopCalls EXCEPT ![s] = @ + 1]

\* browser_state.close(...) is called on s.
CallClose(s) == released' = [released EXCEPT ![s] = @ + 1]

\* The code from the pop to the first await of the close sequence: stop
\* tracing first when a traces_dir is set, otherwise close at once.
StartClose(p, c, s, traceLabel, closeLabel) ==
    /\ IF tracesDir[s]
         THEN /\ stopCalls[s] < MaxRelease
              /\ CallTracingStop(s)
              /\ Suspend(p, traceLabel, c, s, c.key)
              /\ UNCHANGED <<stopDone, released>>
         ELSE /\ released[s] < MaxRelease
              /\ CallClose(s)
              /\ Suspend(p, closeLabel, c, s, None)
              /\ UNCHANGED <<stopCalls, stopDone>>

\* tracing.stop completed: close is called next.
TracingStopped(p, traceLabel, closeLabel) ==
    /\ pc[p] = traceLabel
    /\ stopDone' = [stopDone EXCEPT ![local[p]] = TRUE]
    /\ CallClose(local[p])
    /\ Suspend(p, closeLabel, op[p], local[p], tracePath[p])
    /\ UNCHANGED <<pages, objects, stopCalls>>

\* ------------------------------------------------------- cleanup_for_task
\* Mutant of CleanupForTaskBegin: the entry is read (dict.get), not popped.
CleanupForTaskBeginGet(p, k) ==
    /\ pc[p] = "idle"
    /\ UNCHANGED pages
    /\ IF pages[k] = NoSession
         THEN /\ Return(p, NoSession, "ok")
              /\ UNCHANGED driver
         ELSE StartClose(p, Call("cleanup_for_task", k, {}), pages[k],
                         "td_trace", "td_close")
    /\ UNCHANGED objects

CleanupForTaskBegin(p, k) ==
    /\ pc[p] = "idle"
    /\ pages' = [pages EXCEPT ![k] = NoSession]
    /\ IF pages[k] = NoSession
         THEN /\ Return(p, NoSession, "ok")
              /\ UNCHANGED driver
         ELSE StartClose(p, Call("cleanup_for_task", k, {}), pages[k],
                         "td_trace", "td_close")
    /\ UNCHANGED objects

CleanupForTaskTracingStopped(p) == TracingStopped(p, "td_trace", "td_close")

CleanupForTaskClosed(p) ==
    /\ pc[p] = "td_close"
    /\ Return(p, local[p], "ok")
    /\ UNCHANGED <<pages, objects, driver>>

\* Mutant of CleanupForTaskTimeout: TimeoutError is not caught.
CleanupForTaskTimeoutRaises(p) ==
    /\ pc[p] \in {"td_trace", "td_close"}
    /\ Return(p, NoSession, "error")
    /\ UNCHANGED <<pages, objects, driver>>

\* Mutant of CleanupForTaskTimeout: the deadline covers close() only, not
\* tracing.stop.
CleanupForTaskTimeoutCloseOnly(p) ==
    /\ pc[p] = "td_close"
    /\ Return(p, local[p], "timeout")
    /\ UNCHANGED <<pages, objects, driver>>

\* asyncio.timeout(BROWSER_CLOSE_TIMEOUT) expires while the coroutine waits
\* for tracing.stop or close: TimeoutError is caught and logged (lines 193-196).
CleanupForTaskTimeout(p) ==
    /\ pc[p] \in {"td_trace", "td_close"}
    /\ Return(p, local[p], "timeout")
    /\ UNCHANGED <<pages, objects, driver>>

\* ----------------------------------------------- cleanup_for_workflow_run
\* The loop of lines 214-215, which has no await in it.
PopMembers(members) ==
    pages' = [k \in Keys |-> IF k \in members THEN NoSession ELSE pages[k]]

CleanupForWorkflowRunBegin(p, w, members) ==
    /\ pc[p] = "idle"
    /\ IF pages[w] = NoSession
         THEN /\ PopMembers(members \cup {w})
              /\ Return(p, NoSession, "ok")
              /\ UNCHANGED driver
         ELSE /\ pages' = [pages EXCEPT ![w] = NoSession]
              /\ StartClose(p, Call("cleanup_for_workflow_run", w, members), pages[w],
                            "tg_trace", "tg_close")
    /\ UNCHANGED objects

CleanupForWorkflowRunTracingStopped(p) == TracingStopped(p, "tg_trace", "tg_close")

\* Mutant of CleanupForWorkflowRunClosed: every member entry that still holds
\* the BrowserState is closed as it is popped.
CleanupForWorkflowRunClosedEach(p) ==
    /\ pc[p] = "tg_close"
    /\ PopMembers(op[p].members)
    /\ released' = [released EXCEPT ![local[p]] =
                       @ + Cardinality({m \in op[p].members : pages[m] = local[p]})]
    /\ Return(p, local[p], "ok")
    /\ UNCHANGED <<objects, stopCalls, stopDone>>

CleanupForWorkflowRunClosed(p) ==
    /\ pc[p] = "tg_close"
    /\ PopMembers(op[p].members)
    /\ Return(p, local[p], "ok")
    /\ UNCHANGED <<objects, driver>>

\* ----------------------------------------------------- BrowserManager.close
\* The keys that have an entry.
Registered == {k \in Keys : pages[k] # NoSession}

\* cls.pages = dict() (line 177).
ResetPages == pages' = [k \in Keys |-> NoSession]

\* The loop of lines 175-176 takes the next value of pages.values(), the entry
\* of key k, calls close() on it and waits; `rest` are the keys whose values
\* the loop has still to visit. The dict yields its entries in insertion
\* order, which the registry does not record: any order.
CloseEntry(p, k, rest) ==
    /\ released[pages[k]] < MaxRelease
    /\ CallClose(pages[k])
    /\ Suspend(p, "sd_close", Call("close", k, rest), pages[k], None)
    /\ UNCHANGED <<pages, stopCalls, stopDone>>

\* The loop has no value left to visit: the registry is reset.
CloseDone(p) ==
    /\ ResetPages
    /\ Return(p, NoSession, "ok")
    /\ UNCHANGED driver

CloseBegin(p) ==
    /\ pc[p] = "idle"
    /\ IF Registered = {}
         THEN CloseDone(p)
         ELSE \E k \in Registered : CloseEntry(p, k, Registered \ {k})
    /\ UNCHANGED objects

\* close() of the visited entry returned: the loop goes on.
CloseEntryClosed(p) ==
    /\ pc[p] = "sd_close"
    /\ IF op[p].members = {}
         THEN CloseDone(p)
         ELSE \E k \in op[p].members : CloseEntry(p, k, op[p].members \ {k})
    /\ UNCHANGED objects

\* ------------------------------------------------------------------- Next
\* Callers interleave at their awaits.
Next ==
    \E p \in Procs :
        \/ \E t \in SomeTasks : GetOrCreateForTaskBegin(p, t)
        \/ \E w \in WorkflowRuns : GetOrCreateForWorkflowRunBegin(p, w)
        \/ CreateBrowserStateReturns(p)
        \/ CreateBrowserStateFails(p)
        \/ GetOrCreatePageReturns(p)
        \/ GetOrCreatePageFails(p)
        \/ \E k \in SomeKeys : GetForWorkflowRun(p, k)
        \/ \E k \in SomeKeys : CleanupForTaskBegin(p, k)
        \/ CleanupForTaskTracingStopped(p)
        \/ CleanupForTaskClosed(p)
        \/ CleanupForTaskTimeout(p)
        \/ \E w \in WorkflowRuns, m \in SomeLists : CleanupForWorkflowRunBegin(p, w, m)
        \/ CleanupForWorkflowRunTracingStopped(p)
        \/ CleanupForWorkflowRunClosed(p)

Spec == Init /\ [][Next]_vars

\* One caller whose calls run one after the other, over the whole key space.
SeqNext ==
    \/ \E t \in Tasks : GetOrCreateForTaskBegin(1, t)
    \/ \E w \in WorkflowRuns : GetOrCreateForWorkflowRunBegin(1, w)
    \/ CreateBrowserStateReturns(1)
    \/ CreateBrowserStateFails(1)
    \/ GetOrCreatePageReturns(1)
    \/ GetOrCreatePageFails(1)
    \/ \E k \in Keys : GetForWorkflowRun(1, k)
    \/ \E k \in Keys : CleanupForTaskBegin(1, k)
    \/ CleanupForTaskTracingStopped(1)
    \/ CleanupForTaskClosed(1)
    \/ CleanupForTaskTimeout(1)
    \/ \E w \in WorkflowRuns, m \in AllLists : CleanupForWorkflowRunBegin(1, w, m)
    \/ CleanupForWorkflowRunTracingStopped(1)
    \/ CleanupForWorkflowRunClosed(1)

SeqSpec == Init /\ [][SeqNext]_vars

\* One caller, whose calls run one after the other and include the shutdown
\* of the whole registry.
ShutdownNext ==
    \/ \E t \in SomeTasks : GetOrCreateForTaskBegin(1, t)
    \/ \E w \in WorkflowRuns : GetOrCreateForWorkflowRunBegin(1, w)
    \/ CreateBrowserStateReturns(1)
    \/ CreateBrowserStateFails(1)
    \/ GetOrCreatePageReturns(1)
    \/ GetOrCreatePageFails(1)
    \/ \E k \in SomeKeys : GetForWorkflowRun(1, k)
    \/ \E k \in SomeKeys : CleanupForTaskBegin(1, k)
    \/ CleanupForTaskTracingStopped(1)
    \/ CleanupForTaskClosed(1)
    \/ CleanupForTaskTimeout(1)
    \/ \E w \in WorkflowRuns, m \in SomeLists : CleanupForWorkflowRunBegin(1, w, m)
    \/ CleanupForWorkflowRunTracingStopped(1)
    \/ CleanupForWorkflowRunClosed(1)
    \/ CloseBegin(1)
    \/ CloseEntryClosed(1)

ShutdownSpec == Init /\ [][ShutdownNext]_vars

\* One caller that creates and tears down BrowserStates, attaches recordings
\* and retrieves them.
ArtifactNext ==
    \/ \E t \in ArtifactTasks : GetOrCreateForTaskBegin(1, t)
    \/ \E w \in WorkflowRuns : GetOrCreateForWorkflowRunBegin(1, w)
    \/ CreateBrowserStateReturns(1)
    \/ GetOrCreatePageReturns(1)
    \/ \E k \in ArtifactTasks \cup WorkflowRuns : CleanupForTaskBegin(1, k)
    \/ CleanupForTaskTracingStopped(1)
    \/ CleanupForTaskClosed(1)
    \/ \E t \in ArtifactTasks, a \in ArtifactLists : SetVideoArtifactForTask(1, t, a)
    \/ \E s \in Sessions : GetVideoArtifacts(1, s)

ArtifactSpec == Init /\ [][ArtifactNext]_vars

\* The event loop fires the deadline of asyncio.timeout while the coroutine is
\* still waiting. Nothing makes the driver complete a call: no fairness on
\* the steps in which tracing.stop or close return.
FairSpec == Spec /\ \A p \in Procs : WF_vars(CleanupForTaskTimeout(p))

\* ----------------------------------------------------------------- claims
AllIdle == \A p \in Procs : pc[p] = "idle"

\* Caller p completes a get_or_create call that created a BrowserState.
CreationCompletes(p) == pc[p] = "goc_page" /\ pc'[p] = "idle" /\ outcome' = "ok"

\* C1: two get_or_create calls for one key that are both suspended in the
\* creation both register: when the later one completes while the key has an
\* entry, it replaces the entry by its own BrowserState, invokes neither
\* tracing.stop nor close on the BrowserState it displaces, and the displaced
\* one is no longer registered under the key (nor under the workflow-run key).
C1_LaterRegistrationOverwrites ==
    [][\A p \in Procs :
         CreationCompletes(p) /\ pages[op[p].key] # NoSession =>
           LET k == op[p].key
               old == pages[k]
           IN  /\ old # local[p]
               /\ pages'[k] = local[p]
               /\ ret' = local[p]
               /\ driver' = driver
               /\ {j \in Keys : pages'[j] = old} = KeysOf(old) \ {k, WorkflowRunId(k)}]_vars

\* C1 witness: both BrowserStates of the run were created for t6 and registered
\* (page set), the second holds the entry, the first is registered under no
\* key and neither tracing.stop nor close was ever invoked on it. t6 is in no
\* task_ids list of Spec, so an entry under t6 goes away only by
\* cleanup_for_task, which invokes one of the two, or by being overwritten.
C1_FirstSessionLeaked ==
    /\ AllIdle
    /\ created = 2
    /\ pages["t6"] = 2
    /\ page[1]
    /\ KeysOf(1) = {}
    /\ released[1] = 0
    /\ stopCalls[1] = 0

\* C2: no registry key maps to a BrowserState on which close() has been
\* invoked, so no lookup or get_or_create hands out a released one.
C2_NoReleasedSessionRegistered ==
    \A k \in Keys : pages[k] # NoSession => released[pages[k]] = 0

\* C3: close() is invoked at most once on each BrowserState.
C3_ReleasedAtMostOnce == \A s \in Sessions : released[s] <= 1

InCleanupForTask(p) == pc[p] \in {"td_trace", "td_close"}
InCleanupForWorkflowRun(p) == pc[p] \in {"tg_trace", "tg_close"}

\* C4: a cleanup_for_task call that waits for the driver eventually returns,
\* whether or not tracing.stop or close ever complete.
C4_CleanupForTaskReturns ==
    \A p \in Procs : InCleanupForTask(p) ~> (pc[p] = "idle")

\* C4 witness: a cleanup_for_task call has returned on the deadline while
\* tracing.stop had not completed; close() was never invoked.
C4_ReturnedWhileTracingStopHung ==
    /\ AllIdle
    /\ outcome = "timeout"
    /\ ret # NoSession
    /\ stopCalls[ret] = 1
    /\ ~stopDone[ret]
    /\ released[ret] = 0

\* C5: a cleanup_for_workflow_run call that waits for the driver eventually
\* returns, whether or not tracing.stop or close ever complete.
C5_CleanupForWorkflowRunReturns ==
    \A p \in Procs : InCleanupForWorkflowRun(p) ~> (pc[p] = "idle")

\* C6: when the deadline ends a cleanup_for_task call, no error is raised,
\* the call returns the BrowserState it popped, the key it was called with has
\* no entry, and the step changes neither the registry nor the driver calls.
C6_TimeoutReturnsRemovedSession ==
    [][\A p \in Procs :
         InCleanupForTask(p) /\ pc'[p] = "idle" /\ outcome' # "ok" =>
           /\ outcome' = "timeout"
           /\ ret' = local[p]
           /\ ret' # NoSession
           /\ pages'[op[p].key] = NoSession
           /\ pages' = pages
           /\ driver' = driver]_vars

\* C6 witness: a cleanup_for_task call has returned on the deadline while
\* close() was hanging: the returned BrowserState is registered nowhere.
C6_ReturnedWhileCloseHung ==
    /\ AllIdle
    /\ outcome = "timeout"
    /\ ret # NoSession
    /\ released[ret] = 1
    /\ KeysOf(ret) = {}

\* What get_or_create would return for key k in this state (lines 57-66 and
\* 88-89): the entry, else the workflow run's entry, else a new BrowserState
\* (-1).
GetOrCreateWouldReturn(k) ==
    IF pages[k] # NoSession THEN pages[k]
    ELSE IF k \in Tasks /\ WorkflowRunId(k) # None /\ pages[WorkflowRunId(k)] # NoSession
      THEN pages[WorkflowRunId(k)]
    ELSE -1

\* C7: while a cleanup_for_task of key k waits for the driver, k has no entry
\* and a get_or_create on k does not return the BrowserState being closed.
C7_KeyDetachedDuringCleanup ==
    \A p \in Procs :
        InCleanupForTask(p) =>
            /\ pages[op[p].key] = NoSession
            /\ GetOrCreateWouldReturn(op[p].key) # local[p]

\* C8: a cleanup_for_task(k) call leaves k without an entry, at its first step
\* and when it returns; only get_or_create gives a key an entry; and
\* cleanup_for_task on a key without an entry returns None at once without
\* error, with no tracing.stop or close call and the registry unchanged.
C8_CleanupForTaskIdempotent ==
    [][\A p \in Procs :
         /\ \A k \in Keys :
              CleanupForTaskBegin(p, k) =>
                /\ pages'[k] = NoSession
                /\ pages[k] = NoSession =>
                     /\ pc'[p] = "idle"
                     /\ ret' = NoSession
                     /\ outcome' = "ok"
                     /\ pages' = pages
                     /\ driver' = driver
         /\ InCleanupForTask(p) /\ pc'[p] = "idle" => pages'[op[p].key] = NoSession
         /\ \A k \in Keys :
              pages[k] = NoSession /\ pages'[k] # NoSession =>
                \E q \in Procs :
                    \/ \E t \in Tasks : GetOrCreateForTaskBegin(q, t)
                    \/ GetOrCreatePageReturns(q)]_vars

\* C8 witness: a BrowserState was torn down by a call that completed (it is
\* registered nowhere, close() was invoked once) and the next call returned
\* None without error.
C8_AbsentAfterCleanup ==
    /\ AllIdle
    /\ outcome = "ok"
    /\ ret = NoSession
    /\ \E s \in Sessions : page[s] /\ released[s] = 1 /\ KeysOf(s) = {}
    /\ \A k \in Keys : pages[k] = NoSession

\* C9: a cleanup_for_workflow_run(w, task_ids) call on a BrowserState that w
\* and the task_ids share pops w at its first step, invokes close() once (on
\* entering the wait for close, never again), and when it returns w and every
\* task_id have no entry.
C9_GroupCleanupClosesOnce ==
    [][\A p \in Procs :
         /\ pc[p] = "idle" /\ InCleanupForWorkflowRun(p)' =>
              /\ pages'[op'[p].key] = NoSession
              /\ local'[p] = pages[op'[p].key]
         /\ pc[p] # "tg_close" /\ pc'[p] = "tg_close" =>
              released' = [released EXCEPT ![local'[p]] = @ + 1]
         /\ InCleanupForWorkflowRun(p) /\ pc'[p] # "tg_close" => released' = released
         /\ pc[p] = "tg_close" /\ pc'[p] = "idle" =>
              /\ outcome' = "ok"
              /\ ret' = local[p]
              /\ pages'[op[p].key] = NoSession
              /\ \A m \in op[p].members : pages'[m] = NoSession
              /\ \A k \in Keys \ op[p].members : pages'[k] = pages[k]]_vars

\* C9 witness: five task keys alias the BrowserState of their workflow run,
\* whose cleanup has popped the run's key and invoked close() once.
C9_FiveTasksAliasClosingSession ==
    \E p \in Procs :
        /\ pc[p] = "tg_close"
        /\ op[p].members = RunTasks
        /\ \A m \in RunTasks : pages[m] = local[p]
        /\ released[local[p]] = 1

\* The keys of workflow run w: its own and those of its tasks.
Family(w) == {w} \cup {t \in Tasks : WorkflowRunId(t) = w}

\* C10 as stated: at most two keys reference a BrowserState.
C10_AtMostTwoKeys == \A s \in Sessions : Cardinality(KeysOf(s)) <= 2

\* C10 amended: the keys that reference a BrowserState are keys of one workflow
\* run (the run's key and keys of its tasks), or one key of a task that has
\* no workflow run.
C10_KeysOfOneFamily ==
    \A s \in Sessions :
        \/ \E w \in WorkflowRuns : KeysOf(s) \subseteq Family(w)
        \/ \E t \in Tasks : WorkflowRunId(t) = None /\ KeysOf(s) \subseteq {t}

\* C10 witness: a BrowserState referenced by its workflow run's key and by
\* two task keys.
C10_ThreeKeys == \E s \in Sessions : Cardinality(KeysOf(s)) = 3 /\ "w1" \in KeysOf(s)

InClose(p) == pc[p] = "sd_close"

\* C11: BrowserManager.close(), called while no other call is in progress,
\* invokes close() once on each distinct BrowserState of the registry (an
\* entry whose BrowserState an entry visited earlier already referenced gets
\* no second close() call), and when it returns the registry is empty.
C11_ShutdownReleasesEachOnce ==
    [][\A p \in Procs :
         /\ pc'[p] = "sd_close" /\ op'[p] # op[p] =>
               LET visited == IF InClose(p) THEN Registered \ op[p].members ELSE {}
               IN  \A k \in visited : pages[k] # local'[p]
         /\ InClose(p) /\ pc'[p] = "idle" =>
               /\ outcome' = "ok"
               /\ \A k \in Keys : pages'[k] = NoSession]_vars

\* C12: a get_or_create call for a key that has an entry returns that entry
\* at once, constructs no BrowserState, calls nothing on the driver and
\* leaves the registry unchanged; and every get_or_create call that returns
\* leaves its key with the BrowserState it returned, which the next call with
\* that key therefore returns again without a second construction.
C12_GetOrCreateReturnsEntry ==
    [][\A p \in Procs :
         /\ \A t \in Tasks :
              GetOrCreateForTaskBegin(p, t) =>
                /\ pages[t] # NoSession =>
                     /\ pc'[p] = "idle"
                     /\ outcome' = "ok"
                     /\ ret' = pages[t]
                     /\ pages' = pages
                     /\ objects' = objects
                     /\ driver' = driver
                /\ pc'[p] = "idle" => ret' # NoSession /\ pages'[t] = ret'
         /\ \A w \in WorkflowRuns :
              GetOrCreateForWorkflowRunBegin(p, w) =>
                /\ pages[w] # NoSession =>
                     /\ pc'[p] = "idle"
                     /\ outcome' = "ok"
                     /\ ret' = pages[w]
                     /\ pages' = pages
                     /\ objects' = objects
                     /\ driver' = driver
                /\ pc'[p] = "idle" => ret' # NoSession /\ pages'[w] = ret'
         /\ CreationCompletes(p) =>
              /\ created' = created
              /\ ret' = local[p]
              /\ pages'[op[p].key] = ret']_vars

\* C12 witness: two BrowserStates were constructed, the first for t6 and the
\* second for t1, both still registered, and the last call returned the
\* first: it was a call with t6 that came after the second construction and
\* constructed nothing.
C12_SecondCallSameSession ==
    /\ AllIdle
    /\ created = 2
    /\ outcome = "ok"
    /\ pages["t6"] = 1
    /\ pages["t1"] = 2
    /\ ret = 1

\* C13: a get_or_create_for_task call for a task whose key has no entry while
\* its workflow run's key has one constructs no BrowserState, gives the task's
\* key the workflow run's BrowserState, returns it and changes no other entry.
C13_TaskAliasesWorkflowRun ==
    [][\A p \in Procs : \A t \in Tasks :
         (/\ GetOrCreateForTaskBegin(p, t)
          /\ pages[t] = NoSession
          /\ WorkflowRunId(t) # None
          /\ pages[WorkflowRunId(t)] # NoSession) =>
            /\ pc'[p] = "idle"
            /\ outcome' = "ok"
            /\ ret' = pages[WorkflowRunId(t)]
            /\ pages' = [pages EXCEPT ![t] = pages[WorkflowRunId(t)]]
            /\ pages'[t] = pages'[WorkflowRunId(t)]
            /\ objects' = objects
            /\ driver' = driver]_vars

\* C13 witness: one BrowserState was constructed and two tasks of the workflow
\* run have it as their entry, like the run: a construction registers one
\* task only.
C13_SecondTaskAliased ==
    /\ AllIdle
    /\ created = 1
    /\ outcome = "ok"
    /\ ret = 1
    /\ pages["w1"] = 1
    /\ pages["t1"] = 1
    /\ pages["t2"] = 1

\* C14: a get_or_create_for_task call that finds neither the task's key nor
\* the workflow run's key constructs one BrowserState and, when the page
\* exists, registers it under the task's key and under the workflow run's key
\* when the task has one, under no other key, and returns it.
C14_RegisteredUnderBothKeys ==
    [][\A p \in Procs :
         /\ \A t \in Tasks :
              (/\ GetOrCreateForTaskBegin(p, t)
               /\ pages[t] = NoSession
               /\ WorkflowRunId(t) # None => pages[WorkflowRunId(t)] = NoSession) =>
                 /\ pc'[p] = "goc_create"
                 /\ op'[p].key = t
                 /\ pages' = pages
                 /\ created' = created
         /\ pc[p] = "goc_create" /\ pc'[p] = "goc_page" =>
              /\ created' = created + 1
              /\ local'[p] = created'
              /\ pages' = pages
         /\ CreationCompletes(p) /\ op[p].name = "get_or_create_for_task" =>
              LET k == op[p].key
                  w == WorkflowRunId(k)
              IN  /\ created' = created
                  /\ ret' = local[p]
                  /\ pages'[k] = local[p]
                  /\ w # None => pages'[w] = local[p]
                  /\ \A j \in Keys \ {k, w} : pages'[j] = pages[j]]_vars

\* C14 witness: the first BrowserState is the entry of t1 and of its workflow
\* run w1 only, the second, just returned, the entry of t6 only.
C14_RunTaskAndLoneTask ==
    /\ AllIdle
    /\ created = 2
    /\ outcome = "ok"
    /\ ret = 2
    /\ KeysOf(1) = {"t1", "w1"}
    /\ KeysOf(2) = {"t6"}

\* C15: the BrowserState of every entry has a page.
C15_RegisteredHasPage ==
    \A k \in Keys : pages[k] # NoSession => page[pages[k]]

\* C15 witness: a BrowserState without a page exists, held by a call that is
\* suspended in get_or_create_page for t1, while the workflow run's key has
\* an entry (with a page) and t1 has none.
C15_PagelessWhileSuspended ==
    \E p \in Procs :
        /\ pc[p] = "goc_page"
        /\ op[p].key = "t1"
        /\ ~page[local[p]]
        /\ pages["w1"] \notin {NoSession, local[p]}
        /\ page[pages["w1"]]
        /\ pages["t1"] = NoSession

\* C16: a get_or_create call changes the registry in no step but the one in
\* which it returns a BrowserState; when _create_browser_state or
\* get_or_create_page fails, the call raises and that step changes nothing
\* in the registry.
C16_FailureLeavesRegistry ==
    [][\A p \in Procs :
         /\ pc[p] = "idle" /\ pc'[p] = "goc_create" => pages' = pages
         /\ pc[p] = "goc_create" /\ pc'[p] # "goc_create" => pages' = pages
         /\ pc[p] = "goc_page" /\ pc'[p] = "idle" /\ outcome' # "ok" => pages' = pages
         /\ pc[p] \in {"goc_create", "goc_page"} /\ pc'[p] = "idle" /\ ret' = NoSession =>
              outcome' = "error"]_vars

\* C16 witness: get_or_create_page failed on the only BrowserState constructed:
\* the call raised and the registry is empty.
C16_PageFailedNothingRegistered ==
    /\ AllIdle
    /\ outcome = "error"
    /\ created = 1
    /\ ~page[1]
    /\ \A k \in Keys : pages[k] = NoSession

\* C17: set_video_artifact_for_task(task, artifacts) replaces the
\* video_artifacts of the BrowserState under the task's workflow-run key when
\* that key has an entry, otherwise of the one under the task's key; when
\* neither has an entry it raises and changes no video_artifacts. It never
\* changes the registry, nor the video_artifacts of another BrowserState.
C17_RecordingsGoToParentElseOwn ==
    [][\A p \in Procs : \A t \in ArtifactTasks : \A a \in ArtifactLists :
         SetVideoArtifactForTask(p, t, a) =>
           LET w == WorkflowRunId(t)
               target == IF w # None /\ pages[w] # NoSession THEN pages[w]
                         ELSE pages[t]
           IN  /\ pages' = pages
               /\ pc'[p] = "idle"
               /\ target # NoSession =>
                    /\ outcome' = "ok"
                    /\ videoArtifacts'[target] = a
                    /\ \A s \in Sessions \ {target} :
                         videoArtifacts'[s] = videoArtifacts[s]
               /\ target = NoSession =>
                    /\ outcome' = "error"
                    /\ videoArtifacts' = videoArtifacts]_vars

\* C17 witness: t1 and its workflow run w1 have different BrowserStates (w1
\* was torn down by its key and created again); the recordings attached for
\* t1 are on w1's BrowserState and t1's own has none.
C17_AttachedToParentNotOwn ==
    /\ AllIdle
    /\ outcome = "ok"
    /\ pages["t1"] = 1
    /\ pages["w1"] = 2
    /\ videoArtifacts[1] = <<>>
    /\ Len(videoArtifacts[2]) = 2

\* C18: get_video_artifacts(browser_state) returns [] without error when the
\* BrowserState has no video artifact; otherwise it returns its artifacts in
\* their order, as many as there were and with their paths, where an
\* artifact whose path is set and exists carries the bytes of that file and
\* any other artifact carries what it carried before (no payload, unless it
\* was given one). The returned list is what the BrowserState then holds.
C18_RecordingsInOrder ==
    [][\A p \in Procs : \A s \in Sessions :
         GetVideoArtifacts(p, s) =>
           LET old == videoArtifacts[s]
               new == retArtifacts'
           IN  /\ outcome' = "ok"
               /\ pages' = pages
               /\ Len(new) = Len(old)
               /\ Len(old) = 0 => new = <<>> /\ videoArtifacts' = videoArtifacts
               /\ \A i \in 1..Len(old) :
                    /\ new[i].video_path = old[i].video_path
                    /\ new[i].video_data # None =>
                         \/ old[i].video_path # None /\ Exists(old[i].video_path)
                         \/ old[i].video_data # None
                    /\ IF old[i].video_path # None /\ Exists(old[i].video_path)
                         THEN new[i].video_data = FileData(old[i].video_path)
                         ELSE new[i].video_data = old[i].video_data
               /\ Len(old) > 0 => videoArtifacts'[s] = new
               /\ \A r \in Sessions \ {s} : videoArtifacts'[r] = videoArtifacts[r]]_vars

\* C18 witness: the last call returned two artifacts in the order they were
\* attached: the first, whose file is missing, without payload, the second
\* with the bytes of its file.
C18_MissingThenRead ==
    /\ AllIdle
    /\ outcome = "ok"
    /\ retArtifacts = <<VideoArtifact("f2", None), VideoArtifact("f1", FileData("f1"))>>

\* C19: on a BrowserState that has a traces_dir, close() is not invoked before
\* a tracing.stop call on it has completed, whichever call closes it
\* (cleanup_for_task, cleanup_for_workflow_run or BrowserManager.close); and
\* in the two cleanups the trace path is built from the key of the call.
C19_TraceStoppedBeforeRelease ==
    /\ \A s \in Sessions : tracesDir[s] /\ released[s] > 0 => stopDone[s]
    /\ \A p \in Procs :
         pc[p] \in {"td_trace", "tg_trace"} => tracePath[p] = op[p].key

\* C20: a task's key and its workflow run's key, when both have an entry,
\* have the same BrowserState.
C20_TaskAndRunShareSession ==
    \A t \in Tasks :
        (/\ WorkflowRunId(t) # None
         /\ pages[t] # NoSession
         /\ pages[WorkflowRunId(t)] # NoSession) => pages[t] = pages[WorkflowRunId(t)]

====
